---- MODULE Spec2Model ----
(***************************************************************************)
(* Model of horovod/tensorflow/__init__.py: the allreduce adapter, the     *)
(* variable broadcast hook, the post-step flip hook and the distributed    *)
(* optimizer with its deferred (one step stale) gradient exchange.         *)
(*                                                                         *)
(* Every rank is one process that builds its own graph (compute_gradients, *)
(* the hooks' constructors and begin()) and then runs training steps.  A   *)
(* collective is a barrier: every rank deposits its contribution and the   *)
(* collective service delivers the result to all ranks at once.            *)
(***************************************************************************)
EXTENDS Integers, Sequences, FiniteSets, TLC

\* ------------------------------------------------------------------ bounds
MaxSize == 2
MaxGrad == 1
MaxLen == 1
NumVars == 2
MaxSteps == 2
MaxCalls == 2
MaxGraphs == 2
MaxSessions == 2

\* ------------------------------------------------------------ exact numbers
\* A tensor element is an exact fraction <<numerator, denominator>> in lowest
\* terms, so that dividing by the group size is a real operation.
RECURSIVE GCD(_, _)
GCD(a, b) == IF b = 0 THEN a ELSE GCD(b, a % b)

Abs(x) == IF x < 0 THEN -x ELSE x

Frac(n, d) ==
    LET g == GCD(Abs(n), d) IN IF n = 0 THEN <<0, 1>> ELSE <<n \div g, d \div g>>

Num(n) == Frac(n, 1)

FracAdd(p, q) == Frac(p[1] * q[2] + q[1] * p[2], p[2] * q[2])

\* tf.div(x, y) on floating point tensors, element by element.
tf_div_elem(p, n) == Frac(p[1], p[2] * n)

tf_div(t, n) == [i \in 1..Len(t) |-> tf_div_elem(t[i], n)]

\* ------------------------------------------------------------------ tensors
\* A dense tensor is a sequence of elements; tf.IndexedSlices is a record of
\* values, indices and dense_shape.
Tensor(v) == [type |-> "Tensor", v |-> v]

IndexedSlices(values, indices, dense_shape) ==
    [type |-> "IndexedSlices", values |-> values, indices |-> indices,
     dense_shape |-> dense_shape]

IsIndexedSlices(t) == t.type = "IndexedSlices"

Ranks(n) == 0..(n - 1)

\* ------------------------------------------------- the collective service
\* _allreduce: the element-wise sum over all ranks of the contributed tensors.
RECURSIVE SumOver(_, _, _)
SumOver(c, r, i) ==
    IF r < 0 THEN Num(0) ELSE FracAdd(SumOver(c, r - 1, i), c[r][i])

mpi_allreduce(c, n) == [i \in 1..Len(c[0]) |-> SumOver(c, n - 1, i)]

\* allgather: the concatenation of the contributions in rank order.
RECURSIVE GatherUpTo(_, _)
GatherUpTo(c, r) == IF r < 0 THEN <<>> ELSE GatherUpTo(c, r - 1) \o c[r]

allgather(c, n) == GatherUpTo(c, n - 1)

\* broadcast: the root's value, on every rank.
broadcast(c, root_rank) == c[root_rank]

\* --------------------------------------------------------------- allreduce
\* allreduce(tensor, average) as rank r sees it, given the tensor every rank
\* passes to the matching call (ts) and the group size n.
\* Mutant: the indices are taken from the local tensor, not gathered.
allreduce_sparse_local_indices(ts, r, average, n) ==
    LET values == allgather([q \in Ranks(n) |-> ts[q].values], n)
    IN IndexedSlices(IF average THEN tf_div(values, n) ELSE values,
                     ts[r].indices, ts[r].dense_shape)

\* Mutant: the sum is returned whatever average says.
allreduce_dense_no_average(ts, r, average, n) ==
    Tensor(mpi_allreduce([q \in Ranks(n) |-> ts[q].v], n))

allreduce_sparse(ts, r, average, n) ==
    LET horovod_size == n
        values == allgather([q \in Ranks(n) |-> ts[q].values], n)
        indices == allgather([q \in Ranks(n) |-> ts[q].indices], n)
        new_values == IF average THEN tf_div(values, horovod_size) ELSE values
    IN IndexedSlices(new_values, indices, ts[r].dense_shape)

allreduce_dense(ts, r, average, n) ==
    LET horovod_size == n
        summed_tensor == mpi_allreduce([q \in Ranks(n) |-> ts[q].v], n)
        new_tensor == IF average THEN tf_div(summed_tensor, horovod_size)
                      ELSE summed_tensor
    IN Tensor(new_tensor)

\* Mutant: the dense branch is taken also for IndexedSlices, on their values.
allreduce_as_dense(ts, r, average, n) ==
    allreduce_dense([q \in Ranks(n) |->
                        IF IsIndexedSlices(ts[q]) THEN Tensor(ts[q].values)
                        ELSE ts[q]], r, average, n)

allreduce(ts, r, average, n) ==
    IF IsIndexedSlices(ts[r])
    THEN allreduce_sparse(ts, r, average, n)
    ELSE allreduce_dense(ts, r, average, n)

\* tf.convert_to_tensor on IndexedSlices: row i is the sum of the values whose
\* index is i (repeated indices accumulate).
RECURSIVE SumRows(_, _, _, _)
SumRows(values, indices, i, k) ==
    IF k = 0 THEN Num(0)
    ELSE IF indices[k] = i
         THEN FracAdd(SumRows(values, indices, i, k - 1), values[k])
         ELSE SumRows(values, indices, i, k - 1)

convert_to_tensor(t) ==
    IF IsIndexedSlices(t)
    THEN Tensor([i \in 1..t.dense_shape |->
                    SumRows(t.values, t.indices, i, Len(t.values))])
    ELSE t

\* ------------------------------------------------------------- the program
Rows == MaxLen + 1

Vars == 1..NumVars

\* A tensor of the graph: what kind it is, the op that produces it and the
\* variable it belongs to.
GraphTensor(type, op, var) == [type |-> type, op |-> op, var |-> var]

None == GraphTensor("None", "None", 0)

\* A value at run time that is not there (no gradient, no buffer).
NoValue == [type |-> "None"]

Kinds == {"None", "Tensor", "IndexedSlices"}

VARIABLES
    size,               \* horovod.common.size()
    deferred,           \* DistributedOptimizer._deferred
    average_kw,         \* the average= keyword the script passes, if any
    gradients,          \* what the base optimizer's compute_gradients returns
    root_rank,          \* BroadcastGlobalVariablesHook.root_rank
    has_get_shape,      \* whether tf.IndexedSlices offers get_shape()
    hook_first,         \* the script constructs PostStepHook before minimize()
    ncalls,             \* per rank: calls of compute_gradients so far
    created,            \* per rank: the variables tf.get_variable has created
    averaged_gradients, \* per rank: the list compute_gradients returned
    allreduce_ops,      \* per rank: the allreduce calls made, in order
    UPDATE_OPS,         \* per rank: tf.GraphKeys.UPDATE_OPS (grad_c.assign(grad))
    GRAD_FLIP_OPS,      \* per rank: GraphKeys.GRAD_FLIP_OPS (grad_r.assign(grad_c))
    grad_flip_ops,      \* per rank: PostStepHook.grad_flip_ops
    bcast_op,           \* per rank: BroadcastGlobalVariablesHook.bcast_op
    default_graph,      \* per rank: tf.get_default_graph()
    nbcast,             \* per rank: runs of session.run(self.bcast_op) so far
    value,              \* per rank, per variable: the trainable variable
    grad_r,             \* per rank, per variable: the buffer being reduced
    grad_c,             \* per rank, per variable: the cached local gradient
    pc,                 \* per rank: where the process is
    step,               \* per rank: training steps started
    batch,              \* the data of every step started so far
    grad,               \* per rank, per variable: this step's local gradient
    op_idx,             \* per rank: next allreduce op of this session.run
    inflight,           \* per rank: the contribution to the collective waited in
    reduced,            \* per rank, per variable: this step's allreduce result
    applied,            \* per rank: the list handed to apply_gradients this step
    done,               \* per rank: whether the ops of this session.run have run
    flips,              \* per rank: flip batches run since the step started
    ncoll,              \* per rank: collectives issued in total
    rin, ravg, rout     \* allreduce called on its own: inputs, average, results

vars == <<size, deferred, average_kw, gradients, root_rank, has_get_shape, hook_first,
          ncalls, created,
          averaged_gradients, allreduce_ops, UPDATE_OPS, GRAD_FLIP_OPS,
          grad_flip_ops, bcast_op, value, grad_r, grad_c, pc, step, batch,
          grad, op_idx, inflight, reduced, applied, done, flips, ncoll,
          rin, ravg, rout, default_graph, nbcast>>

config == <<size, deferred, average_kw, gradients, root_rank, has_get_shape,
           hook_first>>

graph == <<ncalls, created, averaged_gradients, allreduce_ops, UPDATE_OPS,
           GRAD_FLIP_OPS>>

reduce_vars == <<rin, ravg, rout>>

life == <<default_graph, nbcast>>

R == Ranks(size)

\* Mutant: the buffers are initialised to one.
ones == Tensor([i \in 1..Rows |-> Num(1)])

\* tf.constant_initializer(0) on a buffer shaped like the gradient.
zeros == Tensor([i \in 1..Rows |-> Num(0)])

\* ------------------------------------------- DistributedOptimizer.__init__
\* The keywords __init__ takes besides the optimizer.
DistributedOptimizer_keywords ==
    {"name", "use_locking", "device_dense", "device_sparse", "deferred"}

\* Where the process is after the constructor: a keyword that __init__ does
\* not take makes the call raise.
DistributedOptimizer_init(kw) ==
    IF kw = "absent" \/ "average" \in DistributedOptimizer_keywords
    THEN "graph" ELSE "raised"

\* ------------------------------------- DistributedOptimizer.compute_gradients
\* The state of the loop over the base optimizer's list: the list built so far
\* and what the body has added to the graph.
LoopStart ==
    [averaged_gradients |-> <<>>, allreduce_ops |-> <<>>, UPDATE_OPS |-> <<>>,
     GRAD_FLIP_OPS |-> <<>>, buffers |-> {}, raised |-> FALSE]

\* Mutant: in deferred mode the local gradient is reduced, not the buffer.
LoopBody_reduce_local(acc, g, var, is_deferred, get_shape) ==
    IF acc.raised THEN acc
    ELSE IF g.type # "None"
    THEN IF is_deferred /\ g.type = "IndexedSlices" /\ ~get_shape
         THEN [acc EXCEPT !.raised = TRUE]
         ELSE [acc EXCEPT
                !.buffers = IF is_deferred THEN @ \cup {g.var} ELSE @,
                !.allreduce_ops =
                    Append(@, [of |-> "grad", type |-> g.type,
                               var |-> g.var, average |-> TRUE]),
                !.UPDATE_OPS = IF is_deferred THEN Append(@, g.var) ELSE @,
                !.GRAD_FLIP_OPS = IF is_deferred THEN Append(@, g.var) ELSE @,
                !.averaged_gradients =
                    Append(@, [grad |-> GraphTensor(g.type, "allreduce_grad",
                                                    g.var),
                               var |-> var])]
    ELSE [acc EXCEPT
           !.averaged_gradients = Append(@, [grad |-> None, var |-> var])]

\* Mutant: the allreduce of a later gradient is issued before the earlier ones.
LoopBody_prepend(acc, g, var, is_deferred, get_shape) ==
    IF acc.raised THEN acc
    ELSE IF g.type # "None"
    THEN IF is_deferred /\ g.type = "IndexedSlices" /\ ~get_shape
         THEN [acc EXCEPT !.raised = TRUE]
         ELSE [acc EXCEPT
                !.buffers = IF is_deferred THEN @ \cup {g.var} ELSE @,
                !.allreduce_ops =
                    <<[of |-> IF is_deferred THEN "grad_r" ELSE "grad",
                       type |-> IF is_deferred THEN "Tensor" ELSE g.type,
                       var |-> g.var, average |-> TRUE]>> \o @,
                !.UPDATE_OPS = IF is_deferred THEN Append(@, g.var) ELSE @,
                !.GRAD_FLIP_OPS = IF is_deferred THEN Append(@, g.var) ELSE @,
                !.averaged_gradients =
                    Append(@, [grad |->
                                 IF is_deferred
                                 THEN GraphTensor("Tensor", "allreduce_grad_r",
                                                  g.var)
                                 ELSE GraphTensor(g.type, "allreduce_grad",
                                                  g.var),
                               var |-> var])]
    ELSE [acc EXCEPT
           !.averaged_gradients = Append(@, [grad |-> None, var |-> var])]

\* Mutant: a pair without a gradient is left out of the returned list.
LoopBody_drop_none(acc, g, var, is_deferred, get_shape) ==
    IF acc.raised THEN acc
    ELSE IF g.type # "None"
    THEN IF is_deferred /\ g.type = "IndexedSlices" /\ ~get_shape
         THEN [acc EXCEPT !.raised = TRUE]
         ELSE [acc EXCEPT
                !.buffers = IF is_deferred THEN @ \cup {g.var} ELSE @,
                !.allreduce_ops =
                    Append(@, [of |-> IF is_deferred THEN "grad_r" ELSE "grad",
                               type |-> IF is_deferred THEN "Tensor" ELSE g.type,
                               var |-> g.var, average |-> TRUE]),
                !.UPDATE_OPS = IF is_deferred THEN Append(@, g.var) ELSE @,
                !.GRAD_FLIP_OPS = IF is_deferred THEN Append(@, g.var) ELSE @,
                !.averaged_gradients =
                    Append(@, [grad |->
                                 IF is_deferred
                                 THEN GraphTensor("Tensor", "allreduce_grad_r",
                                                  g.var)
                                 ELSE GraphTensor(g.type, "allreduce_grad",
                                                  g.var),
                               var |-> var])]
    ELSE acc

\* Mutant: the allreduce calls are made with average=False.
LoopBody_sum(acc, g, var, is_deferred, get_shape) ==
    IF acc.raised THEN acc
    ELSE IF g.type # "None"
    THEN IF is_deferred
         THEN IF g.type = "IndexedSlices" /\ ~get_shape
              THEN [acc EXCEPT !.raised = TRUE]
              ELSE LET avg_grad == GraphTensor("Tensor", "allreduce_grad_r", g.var)
                   IN [acc EXCEPT
                        !.buffers = @ \cup {g.var},
                        !.allreduce_ops =
                            Append(@, [of |-> "grad_r", type |-> "Tensor",
                                       var |-> g.var, average |-> FALSE]),
                        !.UPDATE_OPS = Append(@, g.var),
                        !.GRAD_FLIP_OPS = Append(@, g.var),
                        !.averaged_gradients =
                            Append(@, [grad |-> avg_grad, var |-> var])]
         ELSE LET avg_grad == GraphTensor(g.type, "allreduce_grad", g.var)
              IN [acc EXCEPT
                   !.allreduce_ops =
                       Append(@, [of |-> "grad", type |-> g.type,
                                  var |-> g.var, average |-> FALSE]),
                   !.averaged_gradients =
                       Append(@, [grad |-> avg_grad, var |-> var])]
    ELSE [acc EXCEPT
           !.averaged_gradients = Append(@, [grad |-> None, var |-> var])]

\* One pass of the loop body for the pair (g, var).
LoopBody(acc, g, var, is_deferred, get_shape) ==
    IF acc.raised THEN acc
    ELSE IF g.type # "None"
    THEN IF is_deferred
         THEN IF g.type = "IndexedSlices" /\ ~get_shape
              THEN [acc EXCEPT !.raised = TRUE]
              ELSE LET avg_grad == GraphTensor("Tensor", "allreduce_grad_r", g.var)
                   IN [acc EXCEPT
                        !.buffers = @ \cup {g.var},
                        !.allreduce_ops =
                            Append(@, [of |-> "grad_r", type |-> "Tensor",
                                       var |-> g.var, average |-> TRUE]),
                        !.UPDATE_OPS = Append(@, g.var),
                        !.GRAD_FLIP_OPS = Append(@, g.var),
                        !.averaged_gradients =
                            Append(@, [grad |-> avg_grad, var |-> var])]
         ELSE LET avg_grad == GraphTensor(g.type, "allreduce_grad", g.var)
              IN [acc EXCEPT
                   !.allreduce_ops =
                       Append(@, [of |-> "grad", type |-> g.type,
                                  var |-> g.var, average |-> TRUE]),
                   !.averaged_gradients =
                       Append(@, [grad |-> avg_grad, var |-> var])]
    ELSE [acc EXCEPT
           !.averaged_gradients = Append(@, [grad |-> None, var |-> var])]

RECURSIVE Loop(_, _, _, _, _)
Loop(acc, l, i, is_deferred, get_shape) ==
    IF i > Len(l) THEN acc
    ELSE Loop(LoopBody(acc, l[i].grad, l[i].var, is_deferred, get_shape),
              l, i + 1, is_deferred, get_shape)

\* Mutant: the gradients are reduced whatever the group size is.
compute_gradients_any_size(l, n, is_deferred, get_shape) ==
    Loop(LoopStart, l, 1, is_deferred, get_shape)

\* What one call of compute_gradients does, given the base optimizer's list.
compute_gradients(l, n, is_deferred, get_shape) ==
    IF n > 1
    THEN Loop(LoopStart, l, 1, is_deferred, get_shape)
    ELSE [LoopStart EXCEPT !.averaged_gradients = l]

\* The name the base optimizer gives the gradient of variable v in its c-th
\* call on one graph: the graph makes the names of its tensors unique.
grad_name(c, v) == <<"gradients", c, v>>

\* The names of the buffers the c-th call asks tf.get_variable for.
buffer_names(c, vs) ==
    {<<grad_name(c, v), suffix>> : v \in vs, suffix \in {"_r", "_c"}}

\* tf.get_variable raises when a variable of that name exists.
get_variable_raises(names, existing) == names \cap existing # {}

\* One call of compute_gradients on rank r: what it adds to the graph.
compute_gradients_call(r) ==
    LET res == compute_gradients(gradients, size, deferred, has_get_shape)
        names == buffer_names(ncalls[r] + 1, res.buffers)
        raised == res.raised \/ get_variable_raises(names, created[r])
    IN /\ ncalls' = [ncalls EXCEPT ![r] = @ + 1]
       /\ created' = [created EXCEPT ![r] = IF raised THEN @ ELSE @ \cup names]
       /\ averaged_gradients' =
             [averaged_gradients EXCEPT ![r] = res.averaged_gradients]
       /\ allreduce_ops' =
             [allreduce_ops EXCEPT ![r] = @ \o res.allreduce_ops]
       /\ UPDATE_OPS' = [UPDATE_OPS EXCEPT ![r] = @ \o res.UPDATE_OPS]
       /\ GRAD_FLIP_OPS' =
             [GRAD_FLIP_OPS EXCEPT ![r] = @ \o res.GRAD_FLIP_OPS]
       /\ grad_r' = [grad_r EXCEPT ![r] =
             [v \in Vars |-> IF v \in res.buffers THEN zeros ELSE @[v]]]
       /\ grad_c' = [grad_c EXCEPT ![r] =
             [v \in Vars |-> IF v \in res.buffers THEN zeros ELSE @[v]]]
       /\ pc' = [pc EXCEPT ![r] = IF raised THEN "raised" ELSE @]

\* The training script calls minimize(), and so compute_gradients, once.
ComputeGradients_guard(r) ==
    /\ pc[r] = "graph"
    /\ ncalls[r] = 0
    /\ hook_first => grad_flip_ops[r].constructed

ComputeGradients(r) ==
    /\ ComputeGradients_guard(r)
    /\ compute_gradients_call(r)
    /\ UNCHANGED <<config, grad_flip_ops, bcast_op, value, step, batch, grad,
                   op_idx, inflight, reduced, applied, done, flips, ncoll,
                   reduce_vars, life>>

\* A script that calls compute_gradients of the same optimizer again.
ComputeGradientsAgain(r) ==
    /\ pc[r] = "graph"
    /\ ncalls[r] >= 1
    /\ ncalls[r] < MaxCalls
    /\ compute_gradients_call(r)
    /\ UNCHANGED <<config, grad_flip_ops, bcast_op, value, step, batch, grad,
                   op_idx, inflight, reduced, applied, done, flips, ncoll,
                   reduce_vars, life>>

\* ------------------------------------------------------ PostStepHook.__init__
\* The script constructs the hook before or after minimize().
PostStepHook_init_guard(r) ==
    /\ pc[r] = "graph"
    /\ ~grad_flip_ops[r].constructed
    /\ hook_first <=> ncalls[r] = 0

PostStepHook_init(r) ==
    /\ PostStepHook_init_guard(r)
    /\ grad_flip_ops' = [grad_flip_ops EXCEPT ![r] =
            [constructed |-> TRUE, ops |-> GRAD_FLIP_OPS[r]]]
    /\ UNCHANGED <<config, graph, bcast_op, value, grad_r, grad_c, pc, step,
                   batch, grad, op_idx, inflight, reduced, applied, done,
                   flips, ncoll, reduce_vars, life>>

\* ------------------------------------------------ broadcast_global_variables
\* tf.global_variables(): the model's variables and the buffers created so far.
ModelVars == {gradients[i].var : i \in 1..Len(gradients)}

Buffers(r) == {v \in Vars : grad_r[r][v].type # "None"}

\* Mutant: the variables are broadcast from rank 0 whatever root_rank is.
broadcast_global_variables_rank0(r, root) ==
    [built |-> TRUE, graph |-> default_graph[r], root_rank |-> 0,
     vars |-> ModelVars, buffers |-> Buffers(r)]

\* Mutant: the batched op is built over no variable.
broadcast_global_variables_no_vars(r, root) ==
    [built |-> TRUE, graph |-> default_graph[r], root_rank |-> root,
     vars |-> {}, buffers |-> {}]

\* The batched op: one assign(var, broadcast(var, root_rank)) per variable of
\* the default graph, which is the graph the op belongs to.
broadcast_global_variables(r, root) ==
    [built |-> TRUE, graph |-> default_graph[r], root_rank |-> root,
     vars |-> ModelVars, buffers |-> Buffers(r)]

\* ------------------------------------------ BroadcastGlobalVariablesHook.begin
\* Mutant: the op is built once and kept whatever the default graph is.
begin_bound_forever(r) ==
    /\ pc[r] = "graph"
    /\ ncalls[r] > 0
    /\ grad_flip_ops[r].constructed
    /\ bcast_op' = [bcast_op EXCEPT ![r] =
            IF ~@.built THEN broadcast_global_variables(r, root_rank) ELSE @]
    /\ pc' = [pc EXCEPT ![r] = "session"]
    /\ UNCHANGED <<config, graph, grad_flip_ops, value, grad_r, grad_c, step,
                   batch, grad, op_idx, inflight, reduced, applied, done,
                   flips, ncoll, reduce_vars, life>>

\* MonitoredSession calls begin() and then creates the session.
begin_guard(r) ==
    /\ pc[r] = "graph"
    /\ ncalls[r] > 0
    /\ grad_flip_ops[r].constructed

begin(r) ==
    /\ begin_guard(r)
    /\ bcast_op' = [bcast_op EXCEPT ![r] =
            IF ~@.built \/ @.graph # default_graph[r]
            THEN broadcast_global_variables(r, root_rank) ELSE @]
    /\ pc' = [pc EXCEPT ![r] = "session"]
    /\ UNCHANGED <<config, graph, grad_flip_ops, value, grad_r, grad_c, step,
                   batch, grad, op_idx, inflight, reduced, applied, done,
                   flips, ncoll, reduce_vars, life>>

NoCall == [op |-> "none"]

\* ------------------------- BroadcastGlobalVariablesHook.after_create_session
\* Mutant: the broadcast is run for the first session only.
after_create_session_once(r) ==
    /\ pc[r] = "session"
    /\ nbcast' = [nbcast EXCEPT ![r] = IF @ > 0 THEN @ ELSE @ + 1]
    /\ IF bcast_op[r].vars \cup bcast_op[r].buffers = {} \/ nbcast[r] > 0
       THEN /\ pc' = [pc EXCEPT ![r] = "ready"]
            /\ UNCHANGED <<inflight, ncoll>>
       ELSE /\ pc' = [pc EXCEPT ![r] = "wait"]
            /\ inflight' = [inflight EXCEPT ![r] =
                    [op |-> "broadcast", of |-> "global_variables",
                     type |-> "Tensor", var |-> bcast_op[r].vars,
                     buffers |-> bcast_op[r].buffers,
                     root_rank |-> bcast_op[r].root_rank,
                     value |-> value[r], grad_r |-> grad_r[r],
                     grad_c |-> grad_c[r]]]
            /\ ncoll' = [ncoll EXCEPT ![r] = @ + 1]
    /\ UNCHANGED <<config, graph, grad_flip_ops, bcast_op, value, grad_r,
                   grad_c, step, batch, grad, op_idx, reduced, applied, done,
                   flips, reduce_vars, default_graph>>

after_create_session_guard(r) == pc[r] = "session"

after_create_session(r) ==
    /\ after_create_session_guard(r)
    /\ nbcast' = [nbcast EXCEPT ![r] = @ + 1]
    /\ IF bcast_op[r].vars \cup bcast_op[r].buffers = {}
       THEN /\ pc' = [pc EXCEPT ![r] = "ready"]
            /\ UNCHANGED <<inflight, ncoll>>
       ELSE /\ pc' = [pc EXCEPT ![r] = "wait"]
            /\ inflight' = [inflight EXCEPT ![r] =
                    [op |-> "broadcast", of |-> "global_variables",
                     type |-> "Tensor", var |-> bcast_op[r].vars,
                     buffers |-> bcast_op[r].buffers,
                     root_rank |-> bcast_op[r].root_rank,
                     value |-> value[r], grad_r |-> grad_r[r],
                     grad_c |-> grad_c[r]]]
            /\ ncoll' = [ncoll EXCEPT ![r] = @ + 1]
    /\ UNCHANGED <<config, graph, grad_flip_ops, bcast_op, value, grad_r,
                   grad_c, step, batch, grad, op_idx, reduced, applied, done,
                   flips, reduce_vars, default_graph>>

\* ----------------------------------------------------------- a training step
\* The local gradient of rank r for variable v on the data b: distinct for
\* distinct ranks, variables and data.
Elem(r, v, b) == b * (MaxSize * NumVars) + r * NumVars + v

LocalGradient(type, r, v, b) ==
    IF type = "Tensor"
    THEN Tensor([i \in 1..Rows |-> Num(Elem(r, v, b) * i)])
    ELSE IF type = "IndexedSlices"
    THEN IndexedSlices(<<Num(Elem(r, v, b))>>, <<1 + ((r + b) % Rows)>>, Rows)
    ELSE NoValue

\* Mutant: the odd ranks run the allreduce ops of their graph in reverse order.
Contribution_by_rank(r, k, g) ==
    LET n == Len(allreduce_ops[r])
        op == allreduce_ops[r][IF r % 2 = 1 THEN n + 1 - k ELSE k]
        tensor == IF op.of = "grad_r" THEN grad_r[r][op.var] ELSE g[op.var]
    IN [op |-> "allreduce", of |-> op.of, type |-> tensor.type,
        var |-> op.var, average |-> op.average, tensor |-> tensor]

\* What rank r contributes to the allreduce op number k of its graph, given its
\* local gradients g.
Contribution(r, k, g) ==
    LET op == allreduce_ops[r][k]
        tensor == IF op.of = "grad_r" THEN grad_r[r][op.var] ELSE g[op.var]
    IN [op |-> "allreduce", of |-> op.of, type |-> tensor.type,
        var |-> op.var, average |-> op.average, tensor |-> tensor]

\* session.run(train_op) begins: the base optimizer's gradients are computed
\* and the rank enters the first allreduce op of its graph, if there is one.
RunStart_guard(r) == pc[r] = "ready" /\ step[r] < MaxSteps

RunStart(r, b) ==
    /\ RunStart_guard(r)
    /\ step' = [step EXCEPT ![r] = @ + 1]
    /\ IF Len(batch) < step[r] + 1
       THEN batch' = Append(batch, b)
       ELSE batch' = batch /\ b = batch[step[r] + 1]
    /\ grad' = [grad EXCEPT ![r] = [v \in Vars |->
            IF \E i \in 1..Len(gradients) : gradients[i].var = v
            THEN LET i == CHOOSE i \in 1..Len(gradients) : gradients[i].var = v
                 IN LocalGradient(gradients[i].grad.type, r, v, b)
            ELSE NoValue]]
    /\ op_idx' = [op_idx EXCEPT ![r] = 1]
    /\ reduced' = [reduced EXCEPT ![r] = [v \in Vars |-> NoValue]]
    /\ applied' = [applied EXCEPT ![r] = <<>>]
    /\ done' = [done EXCEPT ![r] = FALSE]
    /\ flips' = [flips EXCEPT ![r] = 0]
    /\ IF Len(allreduce_ops[r]) > 0
       THEN /\ inflight' = [inflight EXCEPT ![r] = Contribution(r, 1, grad'[r])]
            /\ ncoll' = [ncoll EXCEPT ![r] = @ + 1]
            /\ pc' = [pc EXCEPT ![r] = "wait"]
       ELSE /\ pc' = [pc EXCEPT ![r] = "running"]
            /\ UNCHANGED <<inflight, ncoll>>
    /\ UNCHANGED <<config, graph, grad_flip_ops, bcast_op, value, grad_r,
                   grad_c, reduce_vars, life>>

\* Whether every rank waits in the same collective.
Signature(c) == <<c.op, c.of, c.type, c.var>>

Matching == \A q \in R : Signature(inflight[q]) = Signature(inflight[0])

\* The collective service completes the collective every rank waits in; a rank
\* in a training step goes on to the next allreduce op of its graph.
Deliver_guard == \A q \in R : pc[q] = "wait"

Deliver ==
    /\ Deliver_guard
    /\ IF ~Matching
       THEN /\ pc' = [q \in R |-> "collective_error"]
            /\ inflight' = [q \in R |-> NoCall]
            /\ UNCHANGED <<value, grad_r, grad_c, reduced, op_idx, ncoll>>
       ELSE IF inflight[0].op = "broadcast"
       THEN /\ value' = [q \in R |-> [v \in Vars |->
                    IF v \in inflight[q].var
                    THEN broadcast([p \in R |-> inflight[p].value[v]],
                                   inflight[q].root_rank)
                    ELSE value[q][v]]]
            /\ grad_r' = [q \in R |-> [v \in Vars |->
                    IF v \in inflight[q].buffers
                    THEN broadcast([p \in R |-> inflight[p].grad_r[v]],
                                   inflight[q].root_rank)
                    ELSE grad_r[q][v]]]
            /\ grad_c' = [q \in R |-> [v \in Vars |->
                    IF v \in inflight[q].buffers
                    THEN broadcast([p \in R |-> inflight[p].grad_c[v]],
                                   inflight[q].root_rank)
                    ELSE grad_c[q][v]]]
            /\ pc' = [q \in R |-> "ready"]
            /\ inflight' = [q \in R |-> NoCall]
            /\ UNCHANGED <<reduced, op_idx, ncoll>>
       ELSE /\ reduced' = [q \in R |-> [reduced[q] EXCEPT
                    ![inflight[q].var] =
                        allreduce([p \in R |-> inflight[p].tensor], q,
                                  inflight[q].average, size)]]
            /\ op_idx' = [q \in R |-> op_idx[q] + 1]
            /\ inflight' = [q \in R |->
                    IF op_idx'[q] <= Len(allreduce_ops[q])
                    THEN Contribution(q, op_idx'[q], grad[q]) ELSE NoCall]
            /\ pc' = [q \in R |->
                    IF op_idx'[q] <= Len(allreduce_ops[q])
                    THEN "wait" ELSE "running"]
            /\ ncoll' = [q \in R |->
                    IF op_idx'[q] <= Len(allreduce_ops[q])
                    THEN ncoll[q] + 1 ELSE ncoll[q]]
            /\ UNCHANGED <<value, grad_r, grad_c>>
    /\ UNCHANGED <<config, graph, grad_flip_ops, bcast_op, step, batch, grad,
                   applied, done, flips, reduce_vars, life>>

\* The value at run time of a tensor of the returned list.
Eval(r, t) ==
    IF t.op = "grad" THEN grad[r][t.var]
    ELSE IF t.op = "None" THEN NoValue
    ELSE reduced[r][t.var]

\* The base optimizer's update of one variable: plain gradient descent.
apply_update(p, g) ==
    IF g.type = "None" THEN p
    ELSE LET d == convert_to_tensor(g).v
         IN Tensor([i \in 1..Len(p.v) |->
                FracAdd(p.v[i], Frac(-d[i][1], d[i][2]))])

\* The ops session.run(train_op) runs once its collectives are complete: the
\* ops of tf.GraphKeys.UPDATE_OPS, grad_c.assign(grad), and the base optimizer's
\* apply_gradients on the list compute_gradients returned.  They write
\* different variables, so their order within the run does not show.
RunOps_guard(r) ==
    /\ pc[r] = "running"
    /\ op_idx[r] > Len(allreduce_ops[r])
    /\ ~done[r]

RunOps(r) ==
    /\ RunOps_guard(r)
    /\ grad_c' = [grad_c EXCEPT ![r] = [v \in Vars |->
            IF \E k \in 1..Len(UPDATE_OPS[r]) : UPDATE_OPS[r][k] = v
            THEN convert_to_tensor(grad[r][v]) ELSE @[v]]]
    /\ LET l == [i \in 1..Len(averaged_gradients[r]) |->
                  [grad |-> Eval(r, averaged_gradients[r][i].grad),
                   var |-> averaged_gradients[r][i].var]]
       IN /\ applied' = [applied EXCEPT ![r] = l]
          /\ value' = [value EXCEPT ![r] = [v \in Vars |->
                IF \E i \in 1..Len(l) : l[i].var = v
                THEN apply_update(@[v],
                        l[CHOOSE i \in 1..Len(l) : l[i].var = v].grad)
                ELSE @[v]]]
    /\ done' = [done EXCEPT ![r] = TRUE]
    /\ UNCHANGED <<config, graph, grad_flip_ops, bcast_op, grad_r, pc, step,
                   batch, grad, op_idx, inflight, reduced, flips, ncoll,
                   reduce_vars, life>>

\* ------------------------------------------------------ PostStepHook.after_run
\* Mutant: the flip ops leave grad_r as it is.
run_flips_none(ops, r_bufs, c_bufs) == r_bufs

\* The grouped flip ops: grad_r.assign(grad_c) for every op of the hook's list.
run_flips(ops, r_bufs, c_bufs) ==
    [v \in Vars |->
        IF \E k \in 1..Len(ops) : ops[k] = v THEN c_bufs[v] ELSE r_bufs[v]]

\* Mutant: the flips run while session.run(train_op) is still running.
RunReturned_early(r) == pc[r] = "running"

\* after_run is called when session.run(train_op) has returned: every op the
\* step fetches has run.
RunReturned(r) == pc[r] = "running" /\ done[r]

\* Mutant: the grouped flip op is run even when the hook holds no flip op.
after_run_always(r) ==
    /\ RunReturned(r)
    /\ grad_r' = [grad_r EXCEPT ![r] =
            run_flips(grad_flip_ops[r].ops, grad_r[r], grad_c[r])]
    /\ flips' = [flips EXCEPT ![r] = @ + 1]
    /\ pc' = [pc EXCEPT ![r] = "ready"]
    /\ UNCHANGED <<config, graph, grad_flip_ops, bcast_op, value, grad_c,
                   step, batch, grad, op_idx, inflight, reduced, applied,
                   done, ncoll, reduce_vars, life>>

\* Mutant: the flip ops are read from the collection when the hook runs.
after_run_live_collection(r) ==
    /\ RunReturned(r)
    /\ IF Len(GRAD_FLIP_OPS[r]) > 0
       THEN /\ grad_r' = [grad_r EXCEPT ![r] =
                    run_flips(GRAD_FLIP_OPS[r], grad_r[r], grad_c[r])]
            /\ flips' = [flips EXCEPT ![r] = @ + 1]
       ELSE UNCHANGED <<grad_r, flips>>
    /\ pc' = [pc EXCEPT ![r] = "ready"]
    /\ UNCHANGED <<config, graph, grad_flip_ops, bcast_op, value, grad_c,
                   step, batch, grad, op_idx, inflight, reduced, applied,
                   done, ncoll, reduce_vars, life>>

after_run(r) ==
    /\ RunReturned(r)
    /\ IF Len(grad_flip_ops[r].ops) > 0
       THEN /\ grad_r' = [grad_r EXCEPT ![r] =
                    run_flips(grad_flip_ops[r].ops, grad_r[r], grad_c[r])]
            /\ flips' = [flips EXCEPT ![r] = @ + 1]
       ELSE UNCHANGED <<grad_r, flips>>
    /\ pc' = [pc EXCEPT ![r] = "ready"]
    /\ UNCHANGED <<config, graph, grad_flip_ops, bcast_op, value, grad_c,
                   step, batch, grad, op_idx, inflight, reduced, applied,
                   done, ncoll, reduce_vars, life>>

\* ---------------------------------------------------------- the whole program
BaseList(kinds) ==
    [i \in 1..Len(kinds) |->
        [grad |-> IF kinds[i] = "None" THEN None
                  ELSE GraphTensor(kinds[i], "grad", i),
         var |-> i]]

\* The variables start with a different value on every rank.
InitialValue(r, v, c) == Tensor([i \in 1..Rows |-> Num(Elem(r, v, c))])

InitRun ==
    /\ ncalls = [r \in R |-> 0]
    /\ created = [r \in R |-> {}]
    /\ averaged_gradients = [r \in R |-> <<>>]
    /\ allreduce_ops = [r \in R |-> <<>>]
    /\ UPDATE_OPS = [r \in R |-> <<>>]
    /\ GRAD_FLIP_OPS = [r \in R |-> <<>>]
    /\ grad_flip_ops = [r \in R |-> [constructed |-> FALSE, ops |-> <<>>]]
    /\ bcast_op = [r \in R |->
            [built |-> FALSE, graph |-> 0, root_rank |-> 0, vars |-> {},
             buffers |-> {}]]
    /\ default_graph = [r \in R |-> 1]
    /\ nbcast = [r \in R |-> 0]
    /\ grad_r = [r \in R |-> [v \in Vars |-> NoValue]]
    /\ grad_c = [r \in R |-> [v \in Vars |-> NoValue]]
    /\ step = [r \in R |-> 0]
    /\ batch = <<>>
    /\ grad = [r \in R |-> [v \in Vars |-> NoValue]]
    /\ op_idx = [r \in R |-> 1]
    /\ inflight = [r \in R |-> NoCall]
    /\ reduced = [r \in R |-> [v \in Vars |-> NoValue]]
    /\ applied = [r \in R |-> <<>>]
    /\ done = [r \in R |-> FALSE]
    /\ flips = [r \in R |-> 0]
    /\ ncoll = [r \in R |-> 0]

InitReduceIdle == rin = <<>> /\ ravg = TRUE /\ rout = <<>>

Init ==
    /\ size \in 1..MaxSize
    /\ deferred \in BOOLEAN
    /\ average_kw \in {"absent", "True", "False"}
    /\ pc = [r \in R |-> DistributedOptimizer_init(average_kw)]
    /\ \E kinds \in [1..NumVars -> Kinds] : gradients = BaseList(kinds)
    /\ root_rank = 0
    /\ has_get_shape \in
            IF deferred /\ size > 1
               /\ \E i \in 1..Len(gradients) :
                     gradients[i].grad.type = "IndexedSlices"
            THEN BOOLEAN ELSE {FALSE}
    /\ hook_first \in IF deferred /\ size > 1 THEN BOOLEAN ELSE {FALSE}
    /\ value = [r \in R |-> [v \in Vars |-> InitialValue(r, v, 0)]]
    /\ InitRun
    /\ InitReduceIdle

Next ==
    \/ \E r \in R : ComputeGradients(r)
    \/ \E r \in R : PostStepHook_init(r)
    \/ \E r \in R : begin(r)
    \/ \E r \in R : after_create_session(r)
    \/ \E r \in R : \E b \in 0..MaxGrad : RunStart(r, b)
    \/ Deliver
    \/ \E r \in R : RunOps(r)
    \/ \E r \in R : after_run(r)

Spec == Init /\ [][Next]_vars

\* ------------------------------------------------- allreduce called on its own
\* Every rank calls allreduce once, all with dense tensors of one shape or all
\* with IndexedSlices of one dense_shape.
Elems == {Num(x) : x \in 0..MaxGrad}

DenseInputs == {Tensor(s) : s \in [1..Rows -> Elems]}

IndexSeqs == UNION {[1..l -> 1..Rows] : l \in 0..MaxLen}

SparseInputs ==
    {IndexedSlices([k \in 1..Len(ix) |-> Num(c + k - 1)], ix, Rows) :
        c \in 0..MaxGrad, ix \in IndexSeqs}

InitReduce ==
    /\ size \in 1..MaxSize
    /\ deferred = FALSE
    /\ average_kw = "absent"
    /\ pc = [r \in R |-> "graph"]
    /\ gradients = <<>>
    /\ root_rank = 0
    /\ has_get_shape = FALSE
    /\ hook_first = FALSE
    /\ value = [r \in R |-> [v \in Vars |-> zeros]]
    /\ InitRun
    /\ rin \in [R -> DenseInputs] \cup [R -> SparseInputs]
    /\ ravg \in BOOLEAN
    /\ rout = <<>>

CallAllreduce ==
    /\ DOMAIN rout = {}
    /\ rout' = [r \in R |-> allreduce(rin, r, ravg, size)]
    /\ UNCHANGED <<config, graph, grad_flip_ops, bcast_op, value, grad_r,
                   grad_c, pc, step, batch, grad, op_idx, inflight, reduced,
                   applied, done, flips, ncoll, rin, ravg, life>>

NextReduce == CallAllreduce

SpecReduce == InitReduce /\ [][NextReduce]_vars

\* --------------------------------------------- the broadcast hook on its own
\* The graph is built (no deferred mode); the session is created on every rank.
InitBcast ==
    /\ size \in 1..MaxSize
    /\ deferred = FALSE
    /\ average_kw = "absent"
    /\ \E n \in 0..NumVars : gradients = BaseList([i \in 1..n |-> "Tensor"])
    /\ root_rank \in R
    /\ has_get_shape = FALSE
    /\ hook_first = FALSE
    /\ \E c \in [R -> 0..MaxGrad] :
            value = [r \in R |-> [v \in Vars |-> InitialValue(r, v, c[r])]]
    /\ LET res == compute_gradients(gradients, size, deferred, has_get_shape)
       IN /\ ncalls = [r \in R |-> 1]
          /\ created = [r \in R |-> buffer_names(1, res.buffers)]
          /\ averaged_gradients = [r \in R |-> res.averaged_gradients]
          /\ allreduce_ops = [r \in R |-> res.allreduce_ops]
          /\ UPDATE_OPS = [r \in R |-> res.UPDATE_OPS]
          /\ GRAD_FLIP_OPS = [r \in R |-> res.GRAD_FLIP_OPS]
    /\ grad_flip_ops = [r \in R |-> [constructed |-> TRUE, ops |-> <<>>]]
    /\ bcast_op = [r \in R |->
            [built |-> FALSE, graph |-> 0, root_rank |-> 0, vars |-> {},
             buffers |-> {}]]
    /\ default_graph = [r \in R |-> 1]
    /\ nbcast = [r \in R |-> 0]
    /\ grad_r = [r \in R |-> [v \in Vars |-> NoValue]]
    /\ grad_c = [r \in R |-> [v \in Vars |-> NoValue]]
    /\ pc = [r \in R |-> "graph"]
    /\ step = [r \in R |-> 0]
    /\ batch = <<>>
    /\ grad = [r \in R |-> [v \in Vars |-> NoValue]]
    /\ op_idx = [r \in R |-> 1]
    /\ inflight = [r \in R |-> NoCall]
    /\ reduced = [r \in R |-> [v \in Vars |-> NoValue]]
    /\ applied = [r \in R |-> <<>>]
    /\ done = [r \in R |-> FALSE]
    /\ flips = [r \in R |-> 0]
    /\ ncoll = [r \in R |-> 0]
    /\ InitReduceIdle

NextBcast ==
    \/ \E r \in R : begin(r)
    \/ \E r \in R : after_create_session(r)
    \/ Deliver

SpecBcast == InitBcast /\ [][NextBcast]_vars

\* One initial value per rank and the same data at every step: the hook's
\* lifecycle does not depend on them.
InitLife ==
    /\ InitBcast
    /\ root_rank = 0
    /\ value = [r \in R |-> [v \in Vars |-> InitialValue(r, v, 0)]]

\* --------------------------------- the broadcast hook over several graphs
\* The script makes another graph the default one: the same model is built in
\* every graph.
as_default(r, g) ==
    /\ pc[r] = "graph"
    /\ g # default_graph[r]
    /\ default_graph' = [default_graph EXCEPT ![r] = g]
    /\ UNCHANGED <<config, graph, grad_flip_ops, bcast_op, value, grad_r,
                   grad_c, pc, step, batch, grad, op_idx, inflight, reduced,
                   applied, done, flips, ncoll, reduce_vars, nbcast>>

\* The monitored session ends; the script keeps the hook for the next one.
end_session(r) ==
    /\ pc[r] = "session"
    /\ pc' = [pc EXCEPT ![r] = "graph"]
    /\ UNCHANGED <<config, graph, grad_flip_ops, bcast_op, value, grad_r,
                   grad_c, step, batch, grad, op_idx, inflight, reduced,
                   applied, done, flips, ncoll, reduce_vars, life>>

NextBind ==
    \/ \E r \in R : \E g \in 1..MaxGraphs : as_default(r, g)
    \/ \E r \in R : begin(r)
    \/ \E r \in R : end_session(r)

SpecBind == InitLife /\ [][NextBind]_vars

\* ------------------------------------- the hooks over several sessions
\* The session fails between two steps and the monitored session creates a new
\* one, restored to the variables' last values: begin() is not called again,
\* after_create_session() is.
recreate_session(r) ==
    /\ pc[r] = "ready"
    /\ nbcast[r] < MaxSessions
    /\ pc' = [pc EXCEPT ![r] = "session"]
    /\ UNCHANGED <<config, graph, grad_flip_ops, bcast_op, value, grad_r,
                   grad_c, step, batch, grad, op_idx, inflight, reduced,
                   applied, done, flips, ncoll, reduce_vars, life>>

NextLife ==
    \/ \E r \in R : begin(r)
    \/ \E r \in R : after_create_session(r)
    \/ \E r \in R : recreate_session(r)
    \/ \E r \in R : RunStart(r, 0)
    \/ Deliver
    \/ \E r \in R : RunOps(r)
    \/ \E r \in R : after_run(r)

SpecLife == InitLife /\ [][NextLife]_vars

\* ------------------------------------------- the graph construction on its own
\* The script may call compute_gradients of its optimizer more than once
\* before it creates the session.
NextBuild ==
    \/ \E r \in R : ComputeGradients(r)
    \/ \E r \in R : ComputeGradientsAgain(r)
    \/ \E r \in R : PostStepHook_init(r)

SpecBuild == Init /\ [][NextBuild]_vars

\* ------------------------------------------------------------------ claims
\* The sum over the ranks 0..r of the numerators f(q) * m / denominator: used
\* to state sums without the operators of the model.
RECURSIVE IntSum(_, _)
IntSum(f, r) == IF r < 0 THEN 0 ELSE f[r] + IntSum(f, r - 1)

\* The integer an input element stands for (inputs are whole numbers).
Whole(e) == e[1]

Called == DOMAIN rout # {}

DenseCall == Called /\ \A q \in R : rin[q].type = "Tensor"

SparseCall == Called /\ \A q \in R : rin[q].type = "IndexedSlices"

\* C2: dense reduction.  For N ranks with dense gradients g_0..g_{N-1},
\* allreduce returns on every rank a dense tensor of the same shape whose
\* element i is (sum of g_q[i]) / N when average is true and the sum of g_q[i]
\* when average is false.
C2_DenseReduction ==
    DenseCall =>
        \A r \in R :
            /\ rout[r].type = "Tensor"
            /\ Len(rout[r].v) = Rows
            /\ \A i \in 1..Rows :
                LET total == IntSum([q \in R |-> Whole(rin[q].v[i])], size - 1)
                    e == rout[r].v[i]
                IN /\ e[2] > 0
                   /\ IF ravg THEN e[1] * size = total * e[2]
                      ELSE e[1] = total /\ e[2] = 1

\* C2 witness: two or more ranks have averaged dense gradients whose sum the
\* group size does not divide, and another call has summed them.
C2_Witness ==
    /\ DenseCall /\ size > 1 /\ ravg
    /\ rin[0] # rin[1]
    /\ \E i \in 1..Rows : rout[0].v[i][2] = size

\* The offset of rank q's slices in the gathered result.
Offset(q) == IntSum([p \in R |-> IF p < q THEN Len(rin[p].indices) ELSE 0],
                    size - 1)

\* C3: sparse reduction.  For N ranks contributing (values_q, indices_q),
\* allreduce returns on every rank the indices and the values of all ranks
\* concatenated in rank order, every value divided by N when average is true,
\* repeated indices kept, dense_shape unchanged.
C3_SparseReduction ==
    SparseCall =>
        \A r \in R :
            /\ rout[r].type = "IndexedSlices"
            /\ rout[r].dense_shape = rin[r].dense_shape
            /\ Len(rout[r].indices) =
                  IntSum([q \in R |-> Len(rin[q].indices)], size - 1)
            /\ Len(rout[r].values) = Len(rout[r].indices)
            /\ \A q \in R : \A k \in 1..Len(rin[q].indices) :
                LET e == rout[r].values[Offset(q) + k]
                    g == Whole(rin[q].values[k])
                IN /\ rout[r].indices[Offset(q) + k] = rin[q].indices[k]
                   /\ e[2] > 0
                   /\ IF ravg THEN e[1] * size = g * e[2]
                      ELSE e[1] = g /\ e[2] = 1

\* C3 witness: two ranks contribute the same index with different values, the
\* values are averaged and the result keeps both slices.
C3_Witness ==
    /\ SparseCall /\ size > 1 /\ ravg
    /\ Len(rin[0].indices) > 0 /\ Len(rin[1].indices) > 0
    /\ rin[0].indices[1] = rin[1].indices[1]
    /\ rin[0].values[1] # rin[1].values[1]
    /\ Len(rout[0].indices) >= 2
    /\ rout[0].indices[1] = rout[0].indices[Len(rin[0].indices) + 1]

\* The step in which the broadcast every rank waits in completes.
BroadcastCompletes ==
    /\ \A q \in R : pc[q] = "wait" /\ inflight[q].op = "broadcast"
    /\ \E q \in R : pc'[q] # "wait"

\* C5: broadcast consistency.  When the session-start hook has run on all
\* ranks, every rank's copy of every variable of the model is the value the
\* root rank held before the broadcast, and every rank goes on; nothing else
\* the hook does changes a variable; with no variable at all the hook runs no
\* collective and the rank goes on.
C5_BroadcastConsistency ==
    [][/\ BroadcastCompletes =>
            \A q \in R :
                /\ pc'[q] = "ready"
                /\ \A v \in ModelVars : value'[q][v] = value[root_rank][v]
       /\ ~BroadcastCompletes => value' = value
       /\ \A q \in R :
            (ModelVars = {} /\ pc[q] = "session" /\ pc'[q] # "session") =>
                pc'[q] = "ready" /\ ncoll'[q] = ncoll[q]]_vars

\* C5 witness: the root is not rank 0, every rank is past the
\* broadcast and rank 0 holds, for its first variable, the value of the root,
\* which no run gives rank 0 at the start.
C5_Witness ==
    /\ size > 1 /\ root_rank = size - 1 /\ ModelVars # {}
    /\ \A q \in R : pc[q] = "ready" /\ ncoll[q] = 1
    /\ \E c \in 0..MaxGrad :
            \A q \in R : value[q][1] = InitialValue(root_rank, 1, c)

\* ------------------------------------------------- claims on the whole program
\* The local gradient of rank q for variable v at step t, as a dense tensor.
LocalDense(q, v, t) ==
    convert_to_tensor(LocalGradient(gradients[v].grad.type, q, v, batch[t]))

\* Whether the dense tensor x is the mean over the ranks of their local
\* gradients for variable v at step t.
IsMeanOfLocal(x, v, t) ==
    /\ x.type = "Tensor"
    /\ Len(x.v) = Rows
    /\ \A i \in 1..Rows :
        /\ x.v[i][2] > 0
        /\ x.v[i][1] * size =
             x.v[i][2] * IntSum([q \in R |-> Whole(LocalDense(q, v, t).v[i])],
                                size - 1)

\* The hook was constructed when the flip ops were registered, so it runs them.
HookHoldsFlips(r) ==
    grad_flip_ops[r].constructed /\ grad_flip_ops[r].ops = GRAD_FLIP_OPS[r]

Handed(r) == done[r]

C4_PassThrough ==
    \A r \in R :
        (size = 1 /\ ncalls[r] > 0) =>
            /\ averaged_gradients[r] = gradients
            /\ allreduce_ops[r] = <<>>
            /\ UPDATE_OPS[r] = <<>>
            /\ GRAD_FLIP_OPS[r] = <<>>
            /\ Buffers(r) = {}
            /\ inflight[r].op # "allreduce"
            /\ Handed(r) =>
                /\ Len(applied[r]) = Len(gradients)
                /\ \A i \in 1..Len(gradients) :
                    /\ applied[r][i].var = gradients[i].var
                    /\ applied[r][i].grad = grad[r][gradients[i].var]

\* C4 witness: a single rank in deferred mode has run a step on a list with a
\* sparse gradient and an absent one.
C4_Witness ==
    /\ size = 1 /\ deferred /\ Handed(0) /\ step[0] >= 1
    /\ \E i \in 1..Len(gradients) : gradients[i].grad.type = "IndexedSlices"
    /\ \E i \in 1..Len(gradients) : gradients[i].grad.type = "None"
    /\ \E i \in 1..Len(applied[0]) : applied[0][i].grad.type = "IndexedSlices"

Present(e) == e.grad.type # "None"

NonAbsent == SelectSeq(gradients, Present)

\* C6: same-order collectives.  With group size > 1 a call of
\* compute_gradients that returns makes one allreduce call per non-absent
\* gradient, in the order of the list, dense in deferred mode and of the
\* gradient's kind otherwise; all ranks make the same calls; at run time the
\* k-th allreduce a rank waits in is that of the k-th non-absent gradient, two
\* waiting ranks wait in the same collective and no collective fails.
C6_SameOrderCollectives ==
    /\ \A r \in R :
        (size > 1 /\ ncalls[r] > 0 /\ pc[r] # "raised") =>
            /\ Len(allreduce_ops[r]) = Len(NonAbsent)
            /\ \A k \in 1..Len(NonAbsent) :
                /\ allreduce_ops[r][k].var = NonAbsent[k].var
                /\ allreduce_ops[r][k].type =
                     IF deferred THEN "Tensor" ELSE NonAbsent[k].grad.type
    /\ \A r, q \in R :
        /\ (ncalls[r] > 0 /\ ncalls[q] > 0) =>
                allreduce_ops[r] = allreduce_ops[q]
        /\ (pc[r] = "wait" /\ pc[q] = "wait") =>
                Signature(inflight[r]) = Signature(inflight[q])
    /\ \A r \in R :
        /\ pc[r] # "collective_error"
        /\ (pc[r] = "wait" /\ inflight[r].op = "allreduce") =>
            /\ inflight[r].var = NonAbsent[op_idx[r]].var
            /\ inflight[r].type =
                 IF deferred THEN "Tensor" ELSE NonAbsent[op_idx[r]].grad.type

\* C6 witness: two ranks wait in the second allreduce of a step, a sparse one
\* that follows a dense one.
C6_Witness ==
    /\ size > 1 /\ ~deferred
    /\ \A q \in R : pc[q] = "wait" /\ op_idx[q] = 2
    /\ inflight[0].type = "IndexedSlices"
    /\ allreduce_ops[0][1].type = "Tensor"

\* C7: order, pairing and absent gradients.  With group size > 1 the list
\* compute_gradients returns has the length of the base optimizer's list and
\* the same variable at every position; a position without a gradient stays
\* (None, variable) and no allreduce is made for it; every other position
\* holds the allreduce of that variable's gradient (of its buffer in deferred
\* mode), and at run time its result.
C7_OrderPairingAbsent ==
    \A r \in R :
        (size > 1 /\ ncalls[r] > 0 /\ pc[r] # "raised") =>
            /\ Len(averaged_gradients[r]) = Len(gradients)
            /\ \A i \in 1..Len(gradients) :
                LET a == averaged_gradients[r][i]
                    g == gradients[i]
                    calls == {k \in 1..Len(allreduce_ops[r]) :
                                allreduce_ops[r][k].var = g.var}
                IN /\ a.var = g.var
                   /\ IF g.grad.type = "None"
                      THEN a.grad = None /\ calls = {}
                      ELSE /\ a.grad.var = g.var
                           /\ a.grad.op = IF deferred THEN "allreduce_grad_r"
                                          ELSE "allreduce_grad"
                           /\ Cardinality(calls) = 1
                           /\ \A k \in calls :
                                allreduce_ops[r][k].of =
                                    IF deferred THEN "grad_r" ELSE "grad"
            /\ Handed(r) =>
                /\ Len(applied[r]) = Len(gradients)
                /\ \A i \in 1..Len(gradients) :
                    /\ applied[r][i].var = gradients[i].var
                    /\ IF gradients[i].grad.type = "None"
                       THEN applied[r][i].grad = NoValue
                       ELSE /\ applied[r][i].grad.type # "None"
                            /\ applied[r][i].grad = reduced[r][gradients[i].var]

\* C7 witness: with two ranks a step has handed on a list whose first position
\* has no gradient and whose second has a reduced one.
C7_Witness ==
    /\ size > 1 /\ Handed(0) /\ Len(applied[0]) = NumVars
    /\ applied[0][1].grad = NoValue
    /\ applied[0][NumVars].grad.type # "None"
    /\ applied[0][NumVars].var = NumVars

\* The step in which rank r's after_run runs.
AfterRunStep(r) == RunReturned(r) /\ pc'[r] = "ready"

\* C8: no-op safety of the post-step hook.  When the hook holds no flip op,
\* after_run runs nothing: no collective is issued and no buffer or variable
\* changes; and the hook holds none when the mode is not deferred, the group
\* size is 1 or no variable has a gradient.
C8_NoOpSafety ==
    [][\A r \in R :
        /\ (AfterRunStep(r) /\ Len(grad_flip_ops[r].ops) = 0) =>
            /\ flips' = flips /\ ncoll' = ncoll /\ inflight' = inflight
            /\ grad_r' = grad_r /\ grad_c' = grad_c /\ value' = value
        /\ (~deferred \/ size = 1 \/ Len(NonAbsent) = 0) =>
            Len(grad_flip_ops[r].ops) = 0]_vars

\* C8 witness: two ranks, not deferred; rank 0 has finished a step, after_run
\* has run and no flip batch was run.
C8_Witness ==
    /\ size > 1 /\ ~deferred /\ Len(NonAbsent) > 0
    /\ pc[0] = "ready" /\ step[0] >= 1 /\ flips[0] = 0

\* The step boundary of rank r: session.run(train_op) has returned and the
\* post-step hook has not run yet.
StepBoundary(r) == RunReturned(r)

FlipRuns(r) == flips'[r] = flips[r] + 1

\* What C10 says of a flip batch: it runs when the step's reduction has been
\* read, grad_c has been assigned and the update applied, once, it writes the
\* step's own gradient, and no buffer changes under a reduction in flight.
FlipOrdering(r) ==
    /\ FlipRuns(r) =>
        /\ flips[r] = 0
        /\ pc[r] = "running" /\ pc'[r] = "ready"
        /\ op_idx[r] > Len(allreduce_ops[r])
        /\ inflight[r] = NoCall
        /\ done[r]
        /\ \A k \in 1..Len(grad_flip_ops[r].ops) :
            grad_r'[r][grad_flip_ops[r].ops[k]] =
                LocalDense(r, grad_flip_ops[r].ops[k], step[r])
    /\ (pc[r] = "wait" /\ inflight[r].op = "allreduce") =>
        grad_r'[r] = grad_r[r]

IsSumOfLocal(x, v, t) ==
    /\ x.type = "Tensor"
    /\ Len(x.v) = Rows
    /\ \A i \in 1..Rows :
        /\ x.v[i][2] = 1
        /\ x.v[i][1] =
             IntSum([q \in R |-> Whole(LocalDense(q, v, t).v[i])], size - 1)

\* C14 as claimed: DistributedOptimizer can be constructed with average=True
\* and with average=False; with group size > 1 the gradient it hands on for a
\* non-absent gradient is the mean over the ranks, and the sum when it was
\* constructed with average=False.
C14_AverageOption_Claimed ==
    \A r \in R :
        /\ ncalls[r] = 0 => pc[r] # "raised"
        /\ (size > 1 /\ ~deferred /\ Handed(r)) =>
            \A i \in 1..Len(applied[r]) :
                gradients[i].grad.type # "None" =>
                    IF average_kw = "False"
                    THEN IsSumOfLocal(convert_to_tensor(applied[r][i].grad),
                                      gradients[i].var, step[r])
                    ELSE IsMeanOfLocal(convert_to_tensor(applied[r][i].grad),
                                       gradients[i].var, step[r])

\* C14 as amended: DistributedOptimizer has no average option, and a
\* construction that passes one raises; with group size > 1 every allreduce
\* compute_gradients makes averages, and the gradient handed on for a
\* non-absent gradient is the mean over the ranks.
C14_AlwaysAverage ==
    \A r \in R :
        /\ average_kw # "absent" => pc[r] = "raised" /\ ncalls[r] = 0
        /\ \A k \in 1..Len(allreduce_ops[r]) : allreduce_ops[r][k].average
        /\ (size > 1 /\ ~deferred /\ Handed(r)) =>
            \A i \in 1..Len(applied[r]) :
                gradients[i].grad.type # "None" =>
                    IsMeanOfLocal(convert_to_tensor(applied[r][i].grad),
                                  gradients[i].var, step[r])

\* C14 witness: two ranks have handed on the mean of their local gradients of
\* a step, which is not their sum.
C14_Witness ==
    /\ size > 1 /\ ~deferred /\ average_kw = "absent" /\ Handed(0)
    /\ \E i \in 1..Len(applied[0]) :
        /\ gradients[i].grad.type = "Tensor"
        /\ IsMeanOfLocal(applied[0][i].grad, gradients[i].var, step[0])
        /\ ~IsSumOfLocal(applied[0][i].grad, gradients[i].var, step[0])

\* ------------------------------------------------ claims on the training run
\* C15: cross-rank parameter consistency.  The session-start broadcast has run
\* before any training step and the base optimizer's update is a function of
\* parameter and gradient; then two ranks that have applied the update of the
\* same step have applied the same gradients and hold the same value of every
\* variable, in deferred and in non-deferred mode.
C15_ParameterConsistency ==
    \A r, q \in R :
        (Handed(r) /\ Handed(q) /\ step[r] = step[q]) =>
            /\ applied[r] = applied[q]
            /\ \A v \in ModelVars : value[r][v] = value[q][v]

\* C15 witness: two ranks have applied the update of step 2 for a variable with
\* a gradient; they hold the same value, which is not the broadcast one.
C15_Witness ==
    /\ size > 1 /\ ~deferred
    /\ \A q \in R : Handed(q) /\ step[q] = 2
    /\ \E i \in 1..Len(applied[0]) :
        /\ applied[0][i].grad.type # "None"
        /\ value[0][applied[0][i].var] = value[1][applied[0][i].var]
        /\ value[0][applied[0][i].var] # InitialValue(0, applied[0][i].var, 0)

\* A rank has crashed: its script raised while it built the graph.
Crashed == \E r \in R : pc[r] = "raised"

\* Every rank has completed all its training steps, post-step hook included.
AllStepsDone == \A r \in R : pc[r] = "ready" /\ step[r] = MaxSteps

\* Rank r can take a step of its own, or the collective all ranks wait in can
\* complete.
CanStep(r) ==
    \/ ComputeGradients_guard(r)
    \/ PostStepHook_init_guard(r)
    \/ begin_guard(r)
    \/ after_create_session_guard(r)
    \/ RunStart_guard(r)
    \/ RunOps_guard(r)
    \/ RunReturned(r)

NotStuck == Crashed \/ AllStepsDone \/ Deliver_guard \/ \E r \in R : CanStep(r)

\* How far rank r has got: every step of the program moves a rank forward.
Stage(r) ==
    LET n == Len(allreduce_ops[r])
        phase == IF pc[r] = "ready" THEN n + 3
                 ELSE IF pc[r] = "running" THEN (IF done[r] THEN n + 2 ELSE n + 1)
                 ELSE IF pc[r] = "wait" /\ inflight[r].op = "allreduce"
                      THEN op_idx[r]
                 ELSE 0
    IN <<ncalls[r] + (IF grad_flip_ops[r].constructed THEN 1 ELSE 0)
         + (IF pc[r] = "graph" THEN 0 ELSE 1) + nbcast[r] + ncoll[r],
         step[r], phase>>

Before(a, b) ==
    \/ a[1] < b[1]
    \/ a[1] = b[1] /\ a[2] < b[2]
    \/ a[1] = b[1] /\ a[2] = b[2] /\ a[3] < b[3]

Advances ==
    /\ \A r \in R : Stage(r) = Stage(r)' \/ Before(Stage(r), Stage(r)')
    /\ \E r \in R : Before(Stage(r), Stage(r)')

\* C16: progress under blocking collectives.  When no rank crashes and all
\* ranks run the same model for the same number of steps, no run gets stuck:
\* until every rank has completed its last training step, post-step hook
\* included, some rank can go on or the collective all ranks wait in
\* completes; no collective fails; and every step of the program moves a rank
\* forward, so every collective returns and every training step completes.
C16_Progress ==
    /\ []NotStuck
    /\ [](\A r \in R : pc[r] # "collective_error")
    /\ [][Advances]_vars

\* C16 witness: two ranks in deferred mode have completed all their steps,
\* each with two allreduces per step and its flip batch.
C16_Witness ==
    /\ size > 1 /\ deferred /\ AllStepsDone /\ ~Crashed
    /\ \A q \in R :
        /\ Len(allreduce_ops[q]) = 2
        /\ ncoll[q] = 1 + 2 * MaxSteps
        /\ HookHoldsFlips(q) /\ flips[q] = 1

\* Whether x is a dense tensor of zeros.
IsZero(x) ==
    /\ x.type = "Tensor"
    /\ Len(x.v) = Rows
    /\ \A i \in 1..Rows : x.v[i] = <<0, 1>>

HookFlips(r) ==
    {grad_flip_ops[r].ops[k] : k \in 1..Len(grad_flip_ops[r].ops)}

\* The hook of rank r is constructed in this step.
HookConstructed(r) ==
    ~grad_flip_ops[r].constructed /\ grad_flip_ops'[r].constructed

\* C18: the post-step hook runs the flips known when it was constructed.  The
\* hook holds the flip ops registered before its construction and no other
\* later; after_run copies grad_c to grad_r for exactly these; a hook
\* constructed before compute_gradients never flips, grad_r stays zero at every
\* step and the gradient handed on is zero, never a local gradient.
C18_HookSnapshot ==
    /\ [][\A r \in R :
            /\ HookConstructed(r) => grad_flip_ops'[r].ops = GRAD_FLIP_OPS[r]
            /\ grad_flip_ops[r].constructed =>
                    grad_flip_ops'[r] = grad_flip_ops[r]
            /\ AfterRunStep(r) =>
                    \A v \in Vars :
                        grad_r'[r][v] = IF v \in HookFlips(r)
                                        THEN grad_c[r][v] ELSE grad_r[r][v]]_vars
    /\ [](\A r \in R :
            (hook_first /\ grad_flip_ops[r].constructed) =>
                /\ HookFlips(r) = {}
                /\ flips[r] = 0
                /\ \A v \in Buffers(r) : IsZero(grad_r[r][v])
                /\ Handed(r) =>
                    \A i \in 1..Len(applied[r]) :
                        gradients[i].grad.type # "None" =>
                            IsZero(applied[r][i].grad))

\* C18 witness: the hook of rank 0 was constructed before compute_gradients;
\* after two steps it holds no flip op though one is registered, grad_c holds
\* the gradient of step 2 and grad_r is still zero.
C18_Witness ==
    /\ size > 1 /\ deferred /\ hook_first
    /\ pc[0] = "ready" /\ step[0] = 2 /\ flips[0] = 0
    /\ HookFlips(0) = {} /\ GRAD_FLIP_OPS[0] # <<>>
    /\ \E v \in Buffers(0) :
        /\ grad_c[0][v] = LocalDense(0, v, 2)
        /\ ~IsZero(grad_c[0][v])
        /\ IsZero(grad_r[0][v])

\* The kind of the base optimizer's gradient for variable v.
KindOf(v) == gradients[CHOOSE i \in 1..Len(gradients) : gradients[i].var = v].grad.type

\* C19: the reduction strategy.  In deferred mode every allreduce that
\* compute_gradients builds reduces the buffer grad_r, a dense tensor, also for
\* a variable whose gradient is IndexedSlices: every collective of a step is
\* dense and so is every result.  In non-deferred mode the collective and its
\* result are IndexedSlices, with the slices of all ranks gathered, exactly
\* when the gradient is IndexedSlices.
C19_ReductionStrategy ==
    \A r \in R :
        /\ \A k \in 1..Len(allreduce_ops[r]) :
            LET op == allreduce_ops[r][k]
            IN IF deferred
               THEN op.of = "grad_r" /\ op.type = "Tensor"
               ELSE op.of = "grad" /\ op.type = KindOf(op.var)
        /\ (pc[r] = "wait" /\ inflight[r].op = "allreduce") =>
            inflight[r].tensor.type =
                IF deferred THEN "Tensor" ELSE KindOf(inflight[r].var)
        /\ \A v \in Vars :
            reduced[r][v].type # "None" =>
                /\ reduced[r][v].type =
                     IF deferred THEN "Tensor" ELSE KindOf(v)
                /\ reduced[r][v].type = "Tensor" =>
                     Len(reduced[r][v].v) = Rows
                /\ reduced[r][v].type = "IndexedSlices" =>
                     /\ Len(reduced[r][v].indices) = size
                     /\ Len(reduced[r][v].values) = size

\* C19 witness: in deferred mode, at step 2, the reduction for a variable whose
\* gradient is IndexedSlices is a dense tensor that is not zero, and grad_r of
\* rank 0 holds the densified local gradient of step 1.
C19_Witness ==
    /\ size > 1 /\ deferred /\ step[0] = 2
    /\ \E v \in Vars :
        /\ \E i \in 1..Len(gradients) :
                gradients[i].var = v /\ gradients[i].grad.type = "IndexedSlices"
        /\ reduced[0][v].type = "Tensor"
        /\ ~IsZero(reduced[0][v])
        /\ grad[0][v].type = "IndexedSlices"
        /\ grad_r[0][v] = LocalDense(0, v, 1)

\* ------------------------------------------ claims on the graph construction
\* The flip ops registered on rank r for variable v, and the buffers created
\* for it.
FlipsFor(r, v) ==
    {k \in 1..Len(GRAD_FLIP_OPS[r]) : GRAD_FLIP_OPS[r][k] = v}

BuffersFor(r, v) == {n \in created[r] : n[1] = grad_name(n[1][2], v)}

\* C11: flip registration is exactly-once.  After any sequence of
\* compute_gradients calls of one optimizer the flip registry holds at most one
\* flip op per deferred variable and at most one pair of buffers, and a call
\* that would register a second flip for a variable ends in an error.
C11_FlipRegistrationOnce ==
    \A r \in R : \A v \in Vars :
        /\ Cardinality(FlipsFor(r, v)) <= 1
        /\ Cardinality(BuffersFor(r, v)) <= 2
        /\ (ncalls[r] >= 2 /\ FlipsFor(r, v) # {}) => pc[r] = "raised"

\* ------------------------------------------------ claims on the broadcast hook
\* The step in which begin() of rank r's hook is called.
BeginStep(r) == pc[r] = "graph" /\ pc'[r] = "session"

\* The hook of rank r is bound to the default graph.
Bound(r) == bcast_op[r].built /\ bcast_op[r].graph = default_graph[r]

\* C12: the binding of the broadcast hook.  After a begin() the cached op
\* belongs to the default graph of that begin(); a begin() in the graph the
\* hook is bound to leaves the cached op as it is; a begin() in another graph
\* builds a new op; nothing but begin() changes the cached op.
C12_HookBinding ==
    [][\A r \in R :
        /\ BeginStep(r) =>
            /\ bcast_op'[r].built
            /\ bcast_op'[r].graph = default_graph[r]
            /\ Bound(r) => bcast_op'[r] = bcast_op[r]
            /\ ~Bound(r) => bcast_op'[r] # bcast_op[r]
        /\ ~BeginStep(r) => bcast_op'[r] = bcast_op[r]]_vars

\* C12 witness: rank 0 has begun in graph 2 and holds an op of graph 2, while
\* rank 1 still holds the op of graph 1 with graph 2 the default one.
C12_Witness ==
    /\ size > 1
    /\ pc[0] = "session" /\ Bound(0) /\ default_graph[0] = 2
    /\ pc[1] = "graph" /\ bcast_op[1].built /\ bcast_op[1].graph = 1
    /\ default_graph[1] = 2

\* C13 as claimed: over any lifecycle of the hook the variable broadcast is
\* run exactly once per process, before the first training step, and never
\* again once a training step has run.
C13_BroadcastOnce_Claimed ==
    \A r \in R :
        /\ nbcast[r] <= 1
        /\ step[r] >= 1 => nbcast[r] = 1

\* The step in which rank r's hook is told that a session was created.
SessionStarts(r) == pc[r] = "session" /\ pc'[r] # "session"

\* C13 as amended: the variable broadcast is run exactly once for every
\* session that is created, before any training step of that session, so
\* exactly once and before the first step when one session is created, and
\* again, also after training steps, when a further session is created.
C13_BroadcastPerSession ==
    [][\A r \in R :
        /\ nbcast'[r] = nbcast[r] + (IF SessionStarts(r) THEN 1 ELSE 0)
        /\ step'[r] # step[r] =>
            /\ nbcast[r] >= 1
            /\ pc[r] = "ready"
            /\ inflight[r].op # "broadcast"]_vars

\* C13 witness: rank 0 has started a training step and waits in the broadcast
\* of its second session.
C13_Witness ==
    /\ size > 1 /\ step[0] >= 1 /\ nbcast[0] = 2
    /\ pc[0] = "wait" /\ inflight[0].op = "broadcast"

====
